---- MODULE Spec2Model ----
(***************************************************************************)
(* Authentication routes of the petfit backend:                            *)
(*   src/backend/petfit/api/routes/user_route.py  register / login /       *)
(*                                                logout / me handlers     *)
(*   src/backend/petfit/api/deps.py               get_current_user, the    *)
(*                                                bearer-token dependency  *)
(* The value objects (Email, Password), the use cases, the repository and  *)
(* create_access_token are imported by these files but live elsewhere;     *)
(* they are modelled from the specification.                               *)
(***************************************************************************)
EXTENDS Integers, Sequences, FiniteSets, TLC

VARIABLES users, pending, nextId, now, held, resp

vars == <<users, pending, nextId, now, held, resp>>

(***************************************************************************)
(* Bounds of the model.                                                    *)
(***************************************************************************)
MaxTime == 2
MaxIds == 2
MaxHeld == 1
MaxPending == 2

(***************************************************************************)
(* Configuration (petfit.api.settings): token time-to-live, signing key.   *)
(***************************************************************************)
ACCESS_TOKEN_EXPIRE == 1
SECRET_KEY == "SECRET"

(***************************************************************************)
(* Request inputs.  A raw email is its local part and its domain; a raw    *)
(* string without '@' has an empty domain.                                 *)
(***************************************************************************)
RawEmails ==
    { [local |-> "ana", domain |-> "example.com"],
      [local |-> "ana", domain |-> "EXAMPLE.com"],
      [local |-> "bob", domain |-> "example.com"],
      [local |-> "not-an-email", domain |-> ""] }

NoEmail == [local |-> "", domain |-> ""]

RawPasswords == {"Str0ng!Pass", "Other1!Pass", "weak"}

Names == {"Ana"}
Roles == {"user"}

(***************************************************************************)
(* Email value object: validates the grammar and lower-cases the domain.   *)
(***************************************************************************)
LowerCase(s) == IF s = "EXAMPLE.com" THEN "example.com" ELSE s

HasDot(s) == s \in {"example.com", "EXAMPLE.com"}

Email(raw) ==
    IF raw.local # "" /\ raw.domain # "" /\ HasDot(raw.domain)
    THEN [ok |-> TRUE, kind |-> "ok",
          value |-> [local |-> raw.local, domain |-> LowerCase(raw.domain)]]
    ELSE [ok |-> FALSE, kind |-> "InvalidEmailError", value |-> NoEmail]

(***************************************************************************)
(* Password value object: strength policy, one-way hash, verification.     *)
(***************************************************************************)
Strong(plain) == plain \in {"Str0ng!Pass", "Other1!Pass"}

Password(plain) ==
    IF Strong(plain)
    THEN [ok |-> TRUE, kind |-> "ok", value |-> plain]
    ELSE [ok |-> FALSE, kind |-> "PasswordValidationError", value |-> ""]

Hash(plain) == <<"hash", plain>>

Verify(plain, stored) == Hash(plain) = stored

(***************************************************************************)
(* Exceptions.  The handlers catch PasswordValidationError first and       *)
(* ValueError second; NameError, StoreError and AttributeError are neither.*)
(***************************************************************************)
IsValueError(kind) ==
    kind \in {"InvalidEmailError", "DuplicateUserError",
              "InvalidCredentialsError", "UserNotFoundError"}

Msg(kind) ==
    IF kind = "InvalidCredentialsError" THEN "Invalid credentials" ELSE kind

(***************************************************************************)
(* User Store (repository): lookups by email and id.                       *)
(***************************************************************************)
FindByEmail(store, email) == {u \in store : u.email = email}

FindById(store, id) == {u \in store : <<u.id>> = id}

(***************************************************************************)
(* Tokens.  sub is <<id>> or <<>> (no "sub" claim); iat and exp are the     *)
(* issue and expiry instants; key is the key the token was signed with;    *)
(* wellformed is FALSE for a string that is no JWT.                        *)
(***************************************************************************)
NoToken == [sub |-> <<>>, iat |-> 0, exp |-> 0, key |-> "", wellformed |-> FALSE]

create_access_token(sub, t) ==
    [sub |-> <<sub>>, iat |-> t, exp |-> t + ACCESS_TOKEN_EXPIRE, key |-> SECRET_KEY,
     wellformed |-> TRUE]

\* jose: the signature is checked first, then the exp claim (now > exp).
jwt_decode(token, key, t) ==
    IF ~token.wellformed \/ token.key # key
    THEN [ok |-> FALSE, kind |-> "JWTError", sub |-> <<>>]
    ELSE IF t > token.exp
    THEN [ok |-> FALSE, kind |-> "ExpiredSignatureError", sub |-> <<>>]
    ELSE [ok |-> TRUE, kind |-> "ok", sub |-> token.sub]

\* Tokens a client may present that no login of this server issued; id 0 is
\* the id of no stored user.
ForeignTokens ==
    { [sub |-> <<0>>, iat |-> 0, exp |-> MaxTime + 1, key |-> SECRET_KEY, wellformed |-> TRUE],
      [sub |-> <<0>>, iat |-> 0, exp |-> 0, key |-> SECRET_KEY, wellformed |-> TRUE],
      [sub |-> <<>>, iat |-> 0, exp |-> MaxTime + 1, key |-> SECRET_KEY, wellformed |-> TRUE],
      [sub |-> <<1>>, iat |-> 0, exp |-> MaxTime + 1, key |-> "other", wellformed |-> TRUE],
      NoToken }

(***************************************************************************)
(* Responses.  status/detail/headers/body are what the client observes;    *)
(* cause, reads, writes and ran record what the handler did: the failure   *)
(* kind raised inside it, the User Store reads and writes it performed and *)
(* whether it ran its use case.  body is <<>> or <<payload>>.              *)
(***************************************************************************)
Resp(op, status, detail, headers, cause, reads, writes, body, token, ran) ==
    [op |-> op, status |-> status, detail |-> detail, headers |-> headers,
     cause |-> cause, reads |-> reads, writes |-> writes, body |-> body,
     token |-> token, ran |-> ran]

NoResp == Resp("none", 0, "", "", "none", 0, 0, <<>>, NoToken, FALSE)

Observable(r) == <<r.status, r.detail, r.headers, r.body>>

\* An exception no handler catches: the framework answers 500.
Unhandled(op, kind, reads, writes, token, ran) ==
    Resp(op, 500, "Internal Server Error", "", kind, reads, writes, <<>>, token, ran)

UserOutput(u) == [id |-> u.id, name |-> u.name, email |-> u.email, role |-> u.role]

(***************************************************************************)
(* deps.py: get_current_user, the dependency behind Depends(...).          *)
(***************************************************************************)
credentials_exception ==
    [status |-> 401, detail |-> "Could not validate credentials",
     headers |-> "WWW-Authenticate: Bearer"]

\* Variant: the token is decoded with expiry verification switched off.
get_current_user_no_exp(token, store, t) ==
    LET payload == jwt_decode(token, SECRET_KEY, token.exp) IN
    IF ~payload.ok
    THEN [ok |-> FALSE, cause |-> payload.kind, reads |-> 0, user |-> {}]
    ELSE IF payload.sub = <<>>
    THEN [ok |-> FALSE, cause |-> "NoSubject", reads |-> 0, user |-> {}]
    ELSE LET user == FindById(store, payload.sub) IN
         IF user = {}
         THEN [ok |-> FALSE, cause |-> "UnknownUser", reads |-> 1, user |-> {}]
         ELSE [ok |-> TRUE, cause |-> "ok", reads |-> 1, user |-> user]

\* Variant: the user is fetched from the token's unverified subject before
\* the token is decoded and verified.
get_current_user_lookup_first(token, store, t) ==
    LET user == FindById(store, token.sub)
        payload == jwt_decode(token, SECRET_KEY, t)
    IN IF ~payload.ok
       THEN [ok |-> FALSE, cause |-> payload.kind, reads |-> 1, user |-> {}]
       ELSE IF payload.sub = <<>>
       THEN [ok |-> FALSE, cause |-> "NoSubject", reads |-> 1, user |-> {}]
       ELSE IF user = {}
       THEN [ok |-> FALSE, cause |-> "UnknownUser", reads |-> 1, user |-> {}]
       ELSE [ok |-> TRUE, cause |-> "ok", reads |-> 1, user |-> user]

\* Variant: the `if user is None` check after the lookup is missing.
get_current_user_no_user_check(token, store, t) ==
    LET payload == jwt_decode(token, SECRET_KEY, t) IN
    IF ~payload.ok
    THEN [ok |-> FALSE, cause |-> payload.kind, reads |-> 0, user |-> {}]
    ELSE IF payload.sub = <<>>
    THEN [ok |-> FALSE, cause |-> "NoSubject", reads |-> 0, user |-> {}]
    ELSE [ok |-> TRUE, cause |-> "ok", reads |-> 1, user |-> FindById(store, payload.sub)]

get_current_user(token, store, t) ==
    LET payload == jwt_decode(token, SECRET_KEY, t) IN
    IF ~payload.ok
    THEN [ok |-> FALSE, cause |-> payload.kind, reads |-> 0, user |-> {}]
    ELSE IF payload.sub = <<>>
    THEN [ok |-> FALSE, cause |-> "NoSubject", reads |-> 0, user |-> {}]
    ELSE LET user == FindById(store, payload.sub) IN
         IF user = {}
         THEN [ok |-> FALSE, cause |-> "UnknownUser", reads |-> 1, user |-> {}]
         ELSE [ok |-> TRUE, cause |-> "ok", reads |-> 1, user |-> user]

(***************************************************************************)
(* user_route.py: register_user.                                           *)
(***************************************************************************)
\* Variant: the id is a fixed string instead of a fresh uuid.
uuid4_fixed(n) == 1

uuid4(n) == n

\* except PasswordValidationError -> 400; except ValueError -> 400.
register_user_except(kind, reads) ==
    IF kind = "PasswordValidationError"
    THEN Resp("register", 400, Msg(kind), "", kind, reads, 0, <<>>, NoToken, reads > 0)
    ELSE IF IsValueError(kind)
    THEN Resp("register", 400, Msg(kind), "", kind, reads, 0, <<>>, NoToken, reads > 0)
    ELSE Unhandled("register", kind, reads, 0, NoToken, reads > 0)

\* RegisterUserUseCase.execute, first half: the duplicate check.
RegisterUserUseCase_check(store, user) ==
    IF FindByEmail(store, user.email) # {}
    THEN [ok |-> FALSE, kind |-> "DuplicateUserError"]
    ELSE [ok |-> TRUE, kind |-> "ok"]

\* Variant: execute is called on the raw input, so the store is consulted
\* before the Email and Password value objects are built.
register_user_lookup_first(data, n, store) ==
    LET e == Email(data.email)
        p == Password(data.password)
        user == [id |-> uuid4(n), name |-> data.name, email |-> e.value,
                 hash |-> Hash(p.value), role |-> data.role]
        chk == RegisterUserUseCase_check(store, user)
    IN IF ~e.ok
       THEN [pending |-> FALSE, user |-> {}, resp |-> register_user_except(e.kind, 1)]
       ELSE IF ~p.ok
       THEN [pending |-> FALSE, user |-> {}, resp |-> register_user_except(p.kind, 1)]
       ELSE IF ~chk.ok
       THEN [pending |-> FALSE, user |-> {}, resp |-> register_user_except(chk.kind, 1)]
       ELSE [pending |-> TRUE, user |-> {user}, resp |-> NoResp]

\* The handler up to the use case's first await on the store: the User entity
\* is built (id, name, Email, Password, role in that order), then execute runs.
register_user(data, n, store) ==
    LET e == Email(data.email) IN
    IF ~e.ok
    THEN [pending |-> FALSE, user |-> {}, resp |-> register_user_except(e.kind, 0)]
    ELSE LET p == Password(data.password) IN
         IF ~p.ok
         THEN [pending |-> FALSE, user |-> {},
               resp |-> register_user_except(p.kind, 0)]
         ELSE LET user == [id |-> uuid4(n), name |-> data.name, email |-> e.value,
                           hash |-> Hash(p.value), role |-> data.role]
                  chk == RegisterUserUseCase_check(store, user)
              IN IF ~chk.ok
                 THEN [pending |-> FALSE, user |-> {},
                       resp |-> register_user_except(chk.kind, 1)]
                 ELSE [pending |-> TRUE, user |-> {user}, resp |-> NoResp]

\* The repository's create: the store enforces email uniqueness atomically.
StoreCreate(store, user) ==
    IF FindByEmail(store, user.email) # {}
    THEN [ok |-> FALSE, kind |-> "StoreError", store |-> store]
    ELSE [ok |-> TRUE, kind |-> "ok", store |-> store \cup {user}]

\* The rest of the handler: the awaited create and the response.
register_user_result(created, user) ==
    IF created.ok
    THEN Resp("register", 200, "User registered successfully", "", "ok", 1, 1,
              <<UserOutput(user)>>, NoToken, TRUE)
    ELSE LET r == register_user_except(created.kind, 1) IN
         [r EXCEPT !.writes = 0]

(***************************************************************************)
(* user_route.py: login_user.                                              *)
(***************************************************************************)
\* LoginUserUseCase.execute: look the user up by email, verify the password.
\* Either failure is the one InvalidCredentialsError; a use case may signal
\* it by raising or by returning no user (the handler treats both), which is
\* the caller-invisible choice `style`.  reason is the cause inside.
LoginUserUseCase(store, email, plain, style) ==
    LET found == FindByEmail(store, email)
        match == {u \in found : Verify(plain, u.hash)}
        reason == IF found = {} THEN "unknown_email"
                  ELSE IF match = {} THEN "wrong_password" ELSE "ok"
    IN [raised |-> match = {} /\ style = "raise",
        kind |-> IF match = {} THEN "InvalidCredentialsError" ELSE "ok",
        user |-> match, reason |-> reason]

\* data.email is taken to be the e-mail the client submitted in the form.
\* except PasswordValidationError -> 400; except ValueError -> 401.
login_user_except(kind, cause, reads) ==
    IF kind = "PasswordValidationError"
    THEN Resp("login", 400, Msg(kind), "", cause, reads, 0, <<>>, NoToken, reads > 0)
    ELSE IF IsValueError(kind)
    THEN Resp("login", 401, Msg(kind), "", cause, reads, 0, <<>>, NoToken, reads > 0)
    ELSE Unhandled("login", cause, reads, 0, NoToken, reads > 0)

\* Variant: a use case that returns no user is answered 404 "User not found".
login_user_not_found(data, store, t, style) ==
    LET e == Email(data.email) IN
    IF ~e.ok
    THEN login_user_except(e.kind, e.kind, 0)
    ELSE LET p == Password(data.password) IN
         IF ~p.ok
         THEN login_user_except(p.kind, p.kind, 0)
         ELSE LET r == LoginUserUseCase(store, e.value, p.value, style) IN
              IF r.raised
              THEN login_user_except(r.kind, r.reason, 1)
              ELSE IF r.user = {}
              THEN Resp("login", 404, "User not found", "", r.reason, 1, 0,
                        <<>>, NoToken, TRUE)
              ELSE LET user == CHOOSE u \in r.user : TRUE
                       token == create_access_token(user.id, t)
                   IN Resp("login", 200, "", "", "ok", 1, 0,
                           <<[access_token |-> token, token_type |-> "bearer"]>>,
                           NoToken, TRUE)

\* Variant: the `if not user` guard is missing, a token is minted from
\* whatever the use case returned.
login_user_no_guard(data, store, t, style) ==
    LET e == Email(data.email) IN
    IF ~e.ok
    THEN login_user_except(e.kind, e.kind, 0)
    ELSE LET p == Password(data.password) IN
         IF ~p.ok
         THEN login_user_except(p.kind, p.kind, 0)
         ELSE LET r == LoginUserUseCase(store, e.value, p.value, style) IN
              IF r.raised
              THEN login_user_except(r.kind, r.reason, 1)
              ELSE LET token == IF r.user = {}
                                THEN [create_access_token(0, t) EXCEPT !.sub = <<>>]
                                ELSE create_access_token((CHOOSE u \in r.user : TRUE).id, t)
                   IN Resp("login", 200, "", "", r.reason, 1, 0,
                           <<[access_token |-> token, token_type |-> "bearer"]>>,
                           NoToken, TRUE)

login_user(data, store, t, style) ==
    LET e == Email(data.email) IN
    IF ~e.ok
    THEN login_user_except(e.kind, e.kind, 0)
    ELSE LET p == Password(data.password) IN
         IF ~p.ok
         THEN login_user_except(p.kind, p.kind, 0)
         ELSE LET r == LoginUserUseCase(store, e.value, p.value, style) IN
              IF r.raised
              THEN login_user_except(r.kind, r.reason, 1)
              ELSE IF r.user = {}
              THEN Resp("login", 401, "Invalid credentials", "", r.reason, 1, 0,
                        <<>>, NoToken, TRUE)
              ELSE LET user == CHOOSE u \in r.user : TRUE
                       token == create_access_token(user.id, t)
                   IN Resp("login", 200, "", "", "ok", 1, 0,
                           <<[access_token |-> token, token_type |-> "bearer"]>>,
                           NoToken, TRUE)

(***************************************************************************)
(* user_route.py: logout_user, guarded by Depends(get_current_user).       *)
(***************************************************************************)
\* LogoutUserUseCase.execute(user.id): tokens are stateless, nothing is kept.
\* ids is the set holding the authenticated user's id.
LogoutUserUseCase(store, ids) == store

\* Variant: the acknowledgment depends on who logs out.
logout_user_personal(token, store, t) ==
    LET auth == get_current_user(token, store, t) IN
    IF ~auth.ok
    THEN Resp("logout", credentials_exception.status, credentials_exception.detail,
              credentials_exception.headers, auth.cause, auth.reads, 0, <<>>,
              token, FALSE)
    ELSE Resp("logout", 200, "Logout successful", "", "ok", auth.reads, 0,
              <<UserOutput(CHOOSE u \in auth.user : TRUE)>>, token, TRUE)

logout_user(token, store, t) ==
    LET auth == get_current_user(token, store, t) IN
    IF ~auth.ok
    THEN Resp("logout", credentials_exception.status, credentials_exception.detail,
              credentials_exception.headers, auth.cause, auth.reads, 0, <<>>,
              token, FALSE)
    ELSE Resp("logout", 200, "Logout successful", "", "ok", auth.reads, 0, <<>>,
              token, TRUE)

(***************************************************************************)
(* user_route.py: get_current_user, the GET /me handler.  It declares no   *)
(* parameter and no dependency, and names user_repo, which nothing in the  *)
(* module defines: building the use case raises NameError inside the try.  *)
(***************************************************************************)
\* except ValueError -> 404.
me_except(kind, token) ==
    IF IsValueError(kind)
    THEN Resp("me", 404, Msg(kind), "", kind, 0, 0, <<>>, token, FALSE)
    ELSE Unhandled("me", kind, 0, 0, token, FALSE)

me_get_current_user(token) == me_except("NameError", token)

(***************************************************************************)
(* The state machine.                                                      *)
(***************************************************************************)
RegisterInputs ==
    [name : Names, email : RawEmails, password : {"Str0ng!Pass", "weak"}, role : Roles]

LoginInputs == [email : RawEmails, password : RawPasswords]

Styles == {"raise", "none"}

TokenInputs == held \cup ForeignTokens

Init ==
    /\ users = {}
    /\ pending = {}
    /\ nextId = 1
    /\ now = 0
    /\ held = {}
    /\ resp = NoResp

Tick ==
    /\ now < MaxTime
    /\ now' = now + 1
    /\ UNCHANGED <<users, pending, nextId, held, resp>>

\* POST /register up to the use case's await on the store's create.  uuid4
\* draws an id no other request has drawn; a draw that is thrown away with a
\* failed request is not counted.
Register(data) ==
    /\ nextId <= MaxIds
    /\ Cardinality(pending) < MaxPending
    /\ LET out == register_user(data, nextId, users) IN
         /\ pending' = pending \cup out.user
         /\ resp' = IF out.pending THEN resp ELSE out.resp
         /\ nextId' = IF out.pending THEN nextId + 1 ELSE nextId
    /\ UNCHANGED <<users, now, held>>

\* The awaited create of a registration in flight, and its response.
RegisterCreate(user) ==
    /\ user \in pending
    /\ LET created == StoreCreate(users, user) IN
         /\ users' = created.store
         /\ resp' = register_user_result(created, user)
    /\ pending' = pending \ {user}
    /\ UNCHANGED <<nextId, now, held>>

Login(data, style) ==
    /\ LET r == login_user(data, users, now, style) IN
         /\ resp' = r
         /\ held' = IF r.status = 200 /\ Cardinality(held) < MaxHeld
                    THEN held \cup {r.body[1].access_token} ELSE held
    /\ UNCHANGED <<users, pending, nextId, now>>

\* A client drops a token it holds.
Discard(token) ==
    /\ token \in held
    /\ held' = held \ {token}
    /\ UNCHANGED <<users, pending, nextId, now, resp>>

Logout(token) ==
    /\ LET r == logout_user(token, users, now) IN
         /\ resp' = r
         /\ users' = IF r.ran
                     THEN LogoutUserUseCase(users,
                              {u.id : u \in get_current_user(token, users, now).user})
                     ELSE users
    /\ UNCHANGED <<pending, nextId, now, held>>

Me(token) ==
    /\ resp' = me_get_current_user(token)
    /\ UNCHANGED <<users, pending, nextId, now, held>>

Next ==
    \/ Tick
    \/ \E data \in RegisterInputs : Register(data)
    \/ \E user \in pending : RegisterCreate(user)
    \/ \E data \in LoginInputs, style \in Styles : Login(data, style)
    \/ \E token \in held : Discard(token)
    \/ \E token \in TokenInputs : Logout(token)
    \/ \E token \in TokenInputs : Me(token)

Spec == Init /\ [][Next]_vars

(***************************************************************************)
(* Properties.                                                             *)
(***************************************************************************)
ValidationKinds == {"InvalidEmailError", "PasswordValidationError"}

CredentialCauses == {"unknown_email", "wrong_password"}

InvalidInput(data) == ~Email(data.email).ok \/ ~Password(data.password).ok

Unauthorized401 ==
    <<401, "Could not validate credentials", "WWW-Authenticate: Bearer", <<>>>>

\* C1: in Register and Login the email and password are validated before any
\* User Store operation: a request whose Email or Password construction
\* fails has performed no store read and no store write.
C1_ValidateBeforeStore ==
    /\ \A data \in RegisterInputs :
         InvalidInput(data) =>
           LET out == register_user(data, nextId, users) IN
             /\ ~out.pending
             /\ out.resp.cause \in ValidationKinds
             /\ out.resp.reads = 0 /\ out.resp.writes = 0
    /\ \A data \in LoginInputs, style \in Styles :
         InvalidInput(data) =>
           LET r == login_user(data, users, now, style) IN
             r.cause \in ValidationKinds /\ r.reads = 0 /\ r.writes = 0
    /\ (resp.op \in {"register", "login"} /\ resp.cause \in ValidationKinds)
         => (resp.reads = 0 /\ resp.writes = 0 /\ ~resp.ran)

C1_Witness ==
    /\ resp.op = "register" /\ resp.cause = "PasswordValidationError"
    /\ users # {}

\* C2: after any interleaving of Register requests, two of them in flight
\* with the same email included, no two stored users share an email or an
\* id; a Register that finds its email in the User Store fails with
\* DuplicateUserError and writes nothing.
C2_UniqueUsers ==
    /\ \A u, v \in users : (u.email = v.email \/ u.id = v.id) => u = v
    /\ \A data \in RegisterInputs :
         (~InvalidInput(data) /\ FindByEmail(users, Email(data.email).value) # {})
           => LET out == register_user(data, nextId, users) IN
                /\ ~out.pending
                /\ out.resp.cause = "DuplicateUserError"
                /\ out.resp.writes = 0
    /\ (resp.op = "register" /\ resp.status # 200) => (resp.writes = 0 /\ resp.body = <<>>)

\* Two registrations of one email were in flight together: one is stored,
\* the other was refused by the store.
C2_Witness ==
    /\ users # {} /\ pending = {}
    /\ resp.op = "register" /\ resp.cause = "StoreError"

\* C3: a Login that fails because the password is wrong and a Login that
\* fails because the email is not registered give the same observable
\* response (status, message, headers, body).
C3_NoUserEnumeration ==
    /\ LET answers == {login_user(d, users, now, s) : d \in LoginInputs, s \in Styles}
       IN \A r1, r2 \in answers :
            (r1.cause = "wrong_password" /\ r2.cause = "unknown_email")
              => Observable(r1) = Observable(r2)
    /\ (resp.op = "login" /\ resp.cause \in CredentialCauses)
         => Observable(resp) = <<401, "Invalid credentials", "", <<>>>>

C3_Witness ==
    /\ resp.op = "login" /\ resp.cause = "wrong_password"
    /\ \E d \in LoginInputs : login_user(d, users, now, "none").cause = "unknown_email"

\* C4: a token issued by Login for a user id verifies to exactly that id at
\* any time before its expiry instant, and at any time after the TTL has
\* elapsed its verification fails with the expired-token error.
C4_TokenLifetime ==
    \A token \in held :
      LET auth == get_current_user(token, users, now) IN
        /\ token.exp = token.iat + ACCESS_TOKEN_EXPIRE
        /\ now < token.exp =>
             (auth.ok /\ \A u \in auth.user : <<u.id>> = token.sub)
        /\ now > token.iat + ACCESS_TOKEN_EXPIRE =>
             (~auth.ok /\ auth.cause = "ExpiredSignatureError")

C4_Witness ==
    /\ resp.op = "logout" /\ resp.cause = "ExpiredSignatureError"
    /\ resp.token \in held

\* C5 as stated: an expired token is reported as its own kind of failure,
\* distinguishable from the failure for a subject that resolves to no user.
C5_ExpiredIsOwnKind ==
    (resp.op = "logout" /\ resp.cause = "ExpiredSignatureError")
      => \A token \in TokenInputs :
           LET r == logout_user(token, users, now) IN
             r.cause = "UnknownUser" => Observable(r) # Observable(resp)

\* C5 amended: an expired token is rejected before the user lookup (no store
\* read), whether or not its subject resolves, and the rejection is the
\* generic 401 'Could not validate credentials', the same response an
\* unresolvable subject gets.
C5_ExpiredBeforeLookup ==
    /\ \A token \in TokenInputs :
         (token.wellformed /\ token.key = SECRET_KEY /\ now > token.exp)
           => LET auth == get_current_user(token, users, now) IN
                ~auth.ok /\ auth.cause = "ExpiredSignatureError" /\ auth.reads = 0
    /\ (resp.op = "logout" /\ resp.cause = "ExpiredSignatureError")
         => (Observable(resp) = Unauthorized401 /\ resp.reads = 0)

C5_Witness ==
    /\ resp.op = "logout" /\ resp.cause = "ExpiredSignatureError"
    /\ FindById(users, resp.token.sub) # {}
    /\ \E token \in TokenInputs : logout_user(token, users, now).cause = "UnknownUser"

\* C6: GetCurrentUser takes the bearer token; with a valid unexpired token
\* whose subject resolves it returns that user's public profile, and with
\* one whose subject resolves to no user it fails with UserNotFoundError in
\* the not-found class.
C6_MeReturnsProfile ==
    resp.op = "me" =>
      LET auth == get_current_user(resp.token, users, now) IN
        /\ auth.ok => (resp.status = 200
                        /\ resp.body = <<UserOutput(CHOOSE u \in auth.user : TRUE)>>)
        /\ auth.cause = "UnknownUser" =>
             (resp.status = 404 /\ resp.cause = "UserNotFoundError")

C8_TokenOnlyAfterVerify ==
    /\ \A data \in LoginInputs, style \in Styles :
         LET r == login_user(data, users, now, style) IN
           (r.status = 200 \/ r.body # <<>>) =>
             /\ r.reads = 1
             /\ \E u \in users :
                  /\ Email(data.email).ok /\ u.email = Email(data.email).value
                  /\ Verify(data.password, u.hash)
                  /\ r.body = <<[access_token |-> create_access_token(u.id, now),
                                 token_type |-> "bearer"]>>
    /\ (resp.op = "login" /\ (resp.status = 200 \/ resp.body # <<>>))
         => (resp.cause = "ok" /\ \E u \in users : resp.body[1].access_token.sub = <<u.id>>)

C8_Witness ==
    /\ resp.op = "login" /\ resp.status = 200
    /\ Cardinality(users) = 2

\* C9: in Login and in Register a malformed email (InvalidEmailError) and a
\* password that violates the policy (PasswordValidationError) are reported
\* in the validation class (400), never as 401.
C9_ValidationIs400 ==
    (resp.op \in {"login", "register"} /\ resp.cause \in ValidationKinds)
      => resp.status = 400

\* C10: the dependency that guards Logout returns a user only when the token
\* decodes with a valid signature, is unexpired, carries a subject and that
\* subject resolves to a stored user; in every other case it rejects with
\* the one 401 'Could not validate credentials' response and Logout neither
\* runs its use case nor answers success.
C10_AuthGuard ==
    /\ \A token \in TokenInputs :
         LET auth == get_current_user(token, users, now)
             r == logout_user(token, users, now)
             good == /\ token.wellformed /\ token.key = SECRET_KEY
                     /\ now <= token.exp
                     /\ token.sub # <<>>
                     /\ FindById(users, token.sub) # {}
         IN /\ auth.ok <=> good
            /\ auth.ok => auth.user = FindById(users, token.sub)
            /\ ~good => (Observable(r) = Unauthorized401 /\ ~r.ran /\ r.writes = 0)
    /\ (resp.op = "logout" /\ (resp.ran \/ resp.status = 200))
         => (resp.cause = "ok" /\ FindById(users, resp.token.sub) # {}
             /\ resp.token.key = SECRET_KEY /\ resp.token.wellformed)
    /\ (resp.op = "logout" /\ resp.cause # "ok") => Observable(resp) = Unauthorized401

C10_Witness ==
    /\ resp.op = "logout" /\ resp.cause = "UnknownUser"
    /\ users # {}

====
